---- MODULE Spec2Model ----
(***************************************************************************)
(* Model of primitives/tracing/src/proxy.rs: the per-thread TracingProxy   *)
(* that keeps the stack of open (entered) tracing spans for WASM traces.   *)
(*                                                                         *)
(* A span entry (u64, SpanAndGuard) is modelled as a record                *)
(*   [id |-> n, is_valid_trace |-> b]                                      *)
(* where is_valid_trace is the value of the span's field of that name.     *)
(* Dropping a SpanAndGuard (guard first, then span) is the release of the  *)
(* span; the order in which a call drops the entries it removed is the     *)
(* order of the `dropped` sequence the call's operator returns.            *)
(***************************************************************************)
EXTENDS Integers, Sequences, FiniteSets

\* Bounds of the model.
MaxSpans == 3      \* value the model gives MAX_SPANS_LEN (the source sets 1000)
MaxCreates == 5    \* create_span is called at most this many times
ExtraIds == 1      \* exit_span is also tried with ids up to next_id + ExtraIds
MaxThreadCreates == 4  \* creates per thread when two threads are modelled

\* const MAX_SPANS_LEN: usize, scaled to the model's bound.  The code only
\* compares spans.len() with it, so a small value exercises the same branches.
MAX_SPANS_LEN == MaxSpans

\* ids the caller may pass to exit_span when n ids have been issued: 0, every
\* issued id, and ids not issued yet.
ExitIds(n) == 0..(n + ExtraIds)

VARIABLES
    next_id,     \* TracingProxy.next_id
    spans,       \* TracingProxy.spans, head at index 1, tail at Len(spans)
    alive,       \* TRUE until the TracingProxy has been dropped
    closed,      \* every span released so far, in release order, with its
                 \* final is_valid_trace, the kind of call that released it
                 \* and whether that call was exit_span with the span's own
                 \* id (what the tracing subscriber observes)
    log,         \* the log::warn! lines of the last call, in order
    op,          \* the last call: its kind, argument, return value and the
                 \* proxy's state when it was called
    returned,    \* the ids create_span has returned, in call order
    wellNested,  \* TRUE while every exit_span so far was called with the id
                 \* of the tail entry and no create_span has evicted
    proxies,     \* the TracingProxy instances of the thread_local! PROXY, by
                 \* instance: the fields next_id and spans of each
    rets,        \* per thread, the ids create_registered_span returned to it
    solo,        \* per thread, the proxy and returned ids of that thread's
                 \* own calls run alone on a proxy of its own
    tcall        \* the last call made by a thread: the thread, the kind, the
                 \* argument and the instances when it was called

\* The state of the one-ledger specification and of the two-thread one.
ledgerVars == <<next_id, spans, alive, closed, log, op, returned, wellNested>>
threadVars == <<proxies, rets, solo, tcall>>

vars == <<next_id, spans, alive, closed, log, op, returned, wellNested,
          proxies, rets, solo, tcall>>

\* The threads that call create_registered_span and exit_span.
Threads == {1, 2}

----------------------------------------------------------------------------
\* Helpers on sequences.

Last(s) == s[Len(s)]

\* Vec::pop leaves the vector without its last element.
Front(s) == SubSeq(s, 1, Len(s) - 1)

Reverse(s) == [i \in 1..Len(s) |-> s[Len(s) + 1 - i]]

Ids(s) == {s[i].id : i \in 1..Len(s)}

\* s.span.record("is_valid_trace", &false)
RecordInvalid(sg) == [sg EXCEPT !.is_valid_trace = FALSE]

\* The three log::warn! lines of the source.
WarnMaxLen == [kind |-> "max_spans_len_exceeded", id |-> 0, last |-> 0]
WarnNotEqual(id, last_span_id) ==
    [kind |-> "ids_not_equal", id |-> id, last |-> last_span_id]
WarnNotFound(id) == [kind |-> "not_found", id |-> id, last |-> 0]

----------------------------------------------------------------------------
\* TracingProxy::new

new == [next_id |-> 0, spans |-> <<>>]

\* create_span with the length test made before the push (off by one): the
\* vector is allowed to reach MAX_SPANS_LEN + 1 entries.
create_span_late_evict(nid, sp) ==
    LET id == nid + 1
        pushed == Append(sp, [id |-> id, is_valid_trace |-> TRUE])
    IN  IF Len(sp) > MAX_SPANS_LEN
        THEN [next_id |-> id,
              spans   |-> Tail(pushed),
              dropped |-> <<RecordInvalid(Head(pushed))>>,
              log     |-> <<WarnMaxLen>>,
              ret     |-> id]
        ELSE [next_id |-> id,
              spans   |-> pushed,
              dropped |-> <<>>,
              log     |-> <<>>,
              ret     |-> id]

\* create_span taking the new id from the vector's length instead of from
\* the counter.
create_span_len_id(nid, sp) ==
    LET id == Len(sp) + 1
        pushed == Append(sp, [id |-> id, is_valid_trace |-> TRUE])
    IN  IF Len(pushed) > MAX_SPANS_LEN
        THEN [next_id |-> id,
              spans   |-> Tail(pushed),
              dropped |-> <<RecordInvalid(Head(pushed))>>,
              log     |-> <<WarnMaxLen>>,
              ret     |-> id]
        ELSE [next_id |-> id,
              spans   |-> pushed,
              dropped |-> <<>>,
              log     |-> <<>>,
              ret     |-> id]

\* create_span evicting with Vec::swap_remove(0) instead of Vec::remove(0):
\* the tail entry takes the place of the removed head.
create_span_swap_remove(nid, sp) ==
    LET id == nid + 1
        pushed == Append(sp, [id |-> id, is_valid_trace |-> TRUE])
    IN  IF Len(pushed) > MAX_SPANS_LEN
        THEN [next_id |-> id,
              spans   |-> <<Last(pushed)>> \o Tail(Front(pushed)),
              dropped |-> <<RecordInvalid(Head(pushed))>>,
              log     |-> <<WarnMaxLen>>,
              ret     |-> id]
        ELSE [next_id |-> id,
              spans   |-> pushed,
              dropped |-> <<>>,
              log     |-> <<>>,
              ret     |-> id]

\* create_span with `>=` for `>` in the length test: the head is evicted as
\* soon as the vector reaches MAX_SPANS_LEN entries.
create_span_ge(nid, sp) ==
    LET id == nid + 1
        pushed == Append(sp, [id |-> id, is_valid_trace |-> TRUE])
    IN  IF Len(pushed) >= MAX_SPANS_LEN
        THEN [next_id |-> id,
              spans   |-> Tail(pushed),
              dropped |-> <<RecordInvalid(Head(pushed))>>,
              log     |-> <<WarnMaxLen>>,
              ret     |-> id]
        ELSE [next_id |-> id,
              spans   |-> pushed,
              dropped |-> <<>>,
              log     |-> <<>>,
              ret     |-> id]

\* create_span pushing the new entry at index 0 (Vec::insert(0, ..)) and
\* evicting from the other end.
create_span_push_front(nid, sp) ==
    LET id == nid + 1
        pushed == <<[id |-> id, is_valid_trace |-> TRUE]>> \o sp
    IN  IF Len(pushed) > MAX_SPANS_LEN
        THEN [next_id |-> id,
              spans   |-> Front(pushed),
              dropped |-> <<RecordInvalid(Last(pushed))>>,
              log     |-> <<WarnMaxLen>>,
              ret     |-> id]
        ELSE [next_id |-> id,
              spans   |-> pushed,
              dropped |-> <<>>,
              log     |-> <<>>,
              ret     |-> id]

\* create_span recording is_valid_trace = false on the entry that is at
\* index 0 after the removal, not on the removed one.
create_span_mark_head(nid, sp) ==
    LET id == nid + 1
        pushed == Append(sp, [id |-> id, is_valid_trace |-> TRUE])
    IN  IF Len(pushed) > MAX_SPANS_LEN
        THEN [next_id |-> id,
              spans   |-> <<RecordInvalid(Head(Tail(pushed)))>>
                              \o Tail(Tail(pushed)),
              dropped |-> <<Head(pushed)>>,
              log     |-> <<WarnMaxLen>>,
              ret     |-> id]
        ELSE [next_id |-> id,
              spans   |-> pushed,
              dropped |-> <<>>,
              log     |-> <<>>,
              ret     |-> id]

\* TracingProxy::create_span, as a function of the proxy's fields.
\* next_id is incremented, the new span (is_valid_trace = true) is pushed,
\* and if the vector is then longer than MAX_SPANS_LEN the entry at index 0
\* is removed, recorded invalid and dropped.
create_span_of(nid, sp) ==
    LET id == nid + 1
        pushed == Append(sp, [id |-> id, is_valid_trace |-> TRUE])
    IN  IF Len(pushed) > MAX_SPANS_LEN
        THEN [next_id |-> id,
              spans   |-> Tail(pushed),
              dropped |-> <<RecordInvalid(Head(pushed))>>,
              log     |-> <<WarnMaxLen>>,
              ret     |-> id]
        ELSE [next_id |-> id,
              spans   |-> pushed,
              dropped |-> <<>>,
              log     |-> <<>>,
              ret     |-> id]

\* The loop of exit_span with `<=` for `<`: it goes on past the entry whose
\* id is the requested one.
RECURSIVE exit_loop_le(_, _, _, _, _)
exit_loop_le(sp, id, last_span_id, dropped, warns) ==
    IF id <= last_span_id
    THEN LET w == Append(warns, WarnNotEqual(id, last_span_id))
         IN  IF sp # <<>>
             THEN LET s == Last(sp)
                      s1 == IF id # s.id THEN RecordInvalid(s) ELSE s
                  IN  exit_loop_le(Front(sp), id, s.id, Append(dropped, s1), w)
             ELSE [spans   |-> sp,
                   dropped |-> dropped,
                   log     |-> Append(w, WarnNotFound(id))]
    ELSE [spans |-> sp, dropped |-> dropped, log |-> warns]

\* The `while id < last_span_id` loop of exit_span.  sp is what is left of
\* the vector, dropped the entries `s` released so far (each at the end of
\* the iteration that popped it), warns the warnings so far.
RECURSIVE exit_loop(_, _, _, _, _)
exit_loop(sp, id, last_span_id, dropped, warns) ==
    IF id < last_span_id
    THEN LET w == Append(warns, WarnNotEqual(id, last_span_id))
         IN  IF sp # <<>>
             THEN LET s == Last(sp)
                      s1 == IF id # s.id THEN RecordInvalid(s) ELSE s
                  IN  exit_loop(Front(sp), id, s.id, Append(dropped, s1), w)
             ELSE [spans   |-> sp,
                   dropped |-> dropped,
                   log     |-> Append(w, WarnNotFound(id))]
    ELSE [spans |-> sp, dropped |-> dropped, log |-> warns]

\* exit_span returning from the None arm without its warning.
exit_span_silent(sp, id) ==
    IF sp # <<>>
    THEN LET v == Last(sp)
             r == exit_loop(Front(sp), id, v.id, <<>>, <<>>)
         IN  [spans   |-> r.spans,
              dropped |-> Append(r.dropped, v),
              log     |-> r.log]
    ELSE [spans   |-> sp,
          dropped |-> <<>>,
          log     |-> <<>>]

\* exit_span looking at the tail with Vec::last before popping and
\* returning when the id is greater: the tail stays in the vector.
exit_span_peek(sp, id) ==
    IF sp # <<>>
    THEN LET v == Last(sp)
             r == exit_loop(Front(sp), id, v.id, <<>>, <<>>)
         IN  IF id > v.id
             THEN [spans   |-> sp,
                   dropped |-> <<>>,
                   log     |-> <<WarnNotFound(id)>>]
             ELSE [spans   |-> r.spans,
                   dropped |-> Append(r.dropped, v),
                   log     |-> r.log]
    ELSE [spans   |-> sp,
          dropped |-> <<>>,
          log     |-> <<WarnNotFound(id)>>]

\* TracingProxy::exit_span, as a function of the vector and the id.
\* The first popped entry `v` is bound for the whole Some(v) arm: it is
\* never recorded invalid and it is dropped when the arm is left (at its end
\* or at the early return), after every entry the loop popped.
exit_span_of(sp, id) ==
    IF sp # <<>>
    THEN LET v == Last(sp)
             r == exit_loop(Front(sp), id, v.id, <<>>, <<>>)
         IN  [spans   |-> r.spans,
              dropped |-> Append(r.dropped, v),
              log     |-> r.log]
    ELSE [spans   |-> sp,
          dropped |-> <<>>,
          log     |-> <<WarnNotFound(id)>>]

\* Drop without the record call: the popped spans are dropped as they are.
RECURSIVE drop_no_record(_)
drop_no_record(sp) ==
    IF sp # <<>>
    THEN [spans   |-> <<>>,
          dropped |-> <<Last(sp)>> \o drop_no_record(Front(sp)).dropped,
          log     |-> <<>>]
    ELSE [spans |-> <<>>, dropped |-> <<>>, log |-> <<>>]

\* Drop with `if let` for `while let`: only the tail entry is popped and
\* released, the others stay in the vector.
drop_once(sp) ==
    IF sp # <<>>
    THEN [spans   |-> Front(sp),
          dropped |-> <<RecordInvalid(Last(sp))>>,
          log     |-> <<>>]
    ELSE [spans |-> <<>>, dropped |-> <<>>, log |-> <<>>]

\* Drop for TracingProxy: pop until empty, recording each popped span
\* invalid before it is dropped.
RECURSIVE drop_of(_)
drop_of(sp) ==
    IF sp # <<>>
    THEN [spans   |-> <<>>,
          dropped |-> <<RecordInvalid(Last(sp))>> \o drop_of(Front(sp)).dropped,
          log     |-> <<>>]
    ELSE [spans |-> <<>>, dropped |-> <<>>, log |-> <<>>]

----------------------------------------------------------------------------
\* The release records appended to `closed` by a call of kind `by` with
\* argument arg: `own` tells that the call was exit_span(id) for the id of
\* the released span itself.
Releases(dropped, by, arg) ==
    [i \in 1..Len(dropped) |->
        [id |-> dropped[i].id,
         is_valid_trace |-> dropped[i].is_valid_trace,
         by |-> by,
         own |-> (by = "exit" /\ arg = dropped[i].id)]]

\* The record of a call kept in `op`.
Call(kind, arg, ret) ==
    [kind |-> kind, arg |-> arg, ret |-> ret,
     pre_spans |-> spans, pre_next_id |-> next_id, pre_closed |-> Len(closed)]

Init ==
    /\ next_id = new.next_id
    /\ spans = new.spans
    /\ alive = TRUE
    /\ closed = <<>>
    /\ log = <<>>
    /\ op = [kind |-> "new", arg |-> 0, ret |-> 0,
             pre_spans |-> <<>>, pre_next_id |-> 0, pre_closed |-> 0]
    /\ returned = <<>>
    /\ wellNested = TRUE
    /\ proxies = [i \in Threads |-> new]
    /\ rets = [t \in Threads |-> <<>>]
    /\ solo = [t \in Threads |-> [proxy |-> new, returned |-> <<>>]]
    /\ tcall = [thread |-> 0, kind |-> "new", arg |-> 0,
                pre |-> [i \in Threads |-> new]]

\* create_registered_span(target, name): one call of create_span.
\* next_id is a u64; the guard keeps the model far below 2^64, where
\* `self.next_id += 1` would overflow.
create_span ==
    /\ alive
    /\ next_id < MaxCreates
    /\ LET r == create_span_of(next_id, spans)
       IN  /\ next_id' = r.next_id
           /\ spans' = r.spans
           /\ closed' = closed \o Releases(r.dropped, "create", r.ret)
           /\ log' = r.log
           /\ op' = Call("create", 0, r.ret)
           /\ returned' = Append(returned, r.ret)
           /\ wellNested' = (wellNested /\ r.dropped = <<>>)
    /\ UNCHANGED alive
    /\ UNCHANGED threadVars

\* exit_span(id): one call of exit_span with any u64 the caller may pass.
exit_span ==
    /\ alive
    /\ \E id \in ExitIds(next_id) :
        LET r == exit_span_of(spans, id)
        IN  /\ spans' = r.spans
            /\ closed' = closed \o Releases(r.dropped, "exit", id)
            /\ log' = r.log
            /\ op' = Call("exit", id, 0)
            /\ wellNested' = (wellNested /\ spans # <<>> /\ Last(spans).id = id)
    /\ UNCHANGED <<next_id, alive, returned>>
    /\ UNCHANGED threadVars

\* The thread ends: the thread-local PROXY is dropped.
drop ==
    /\ alive
    /\ LET r == drop_of(spans)
       IN  /\ spans' = r.spans
           /\ closed' = closed \o Releases(r.dropped, "drop", 0)
           /\ log' = r.log
           /\ op' = Call("drop", 0, 0)
    /\ alive' = FALSE
    /\ UNCHANGED <<next_id, returned, wellNested>>
    /\ UNCHANGED threadVars

Next == create_span \/ exit_span \/ drop

Spec == Init /\ [][Next]_vars

----------------------------------------------------------------------------
\* Two threads.

\* PROXY declared as one static shared by every thread instead of
\* thread_local!: every thread reaches the same instance.
PROXY_static(t) == 1

\* thread_local! { static PROXY }: PROXY.with on thread t reaches the
\* instance of thread t, created by TracingProxy::new on first use.
PROXY(t) == t

Fields(r) == [next_id |-> r.next_id, spans |-> r.spans]

\* create_registered_span called on thread t.
thread_create_span(t) ==
    /\ proxies[PROXY(t)].next_id < MaxThreadCreates
    /\ solo[t].proxy.next_id < MaxThreadCreates
    /\ LET p == proxies[PROXY(t)]
           r == create_span_of(p.next_id, p.spans)
           q == create_span_of(solo[t].proxy.next_id, solo[t].proxy.spans)
       IN  /\ proxies' = [proxies EXCEPT ![PROXY(t)] = Fields(r)]
           /\ rets' = [rets EXCEPT ![t] = Append(@, r.ret)]
           /\ solo' = [solo EXCEPT ![t] =
                         [proxy |-> Fields(q),
                          returned |-> Append(@.returned, q.ret)]]
           /\ tcall' = [thread |-> t, kind |-> "create", arg |-> 0,
                        pre |-> proxies]
    /\ UNCHANGED ledgerVars

\* exit_span(id) called on thread t.
thread_exit_span(t) ==
    /\ \E id \in ExitIds(proxies[PROXY(t)].next_id) :
        LET p == proxies[PROXY(t)]
            r == exit_span_of(p.spans, id)
            q == exit_span_of(solo[t].proxy.spans, id)
        IN  /\ proxies' = [proxies EXCEPT ![PROXY(t)].spans = r.spans]
            /\ solo' = [solo EXCEPT ![t].proxy.spans = q.spans]
            /\ tcall' = [thread |-> t, kind |-> "exit", arg |-> id,
                         pre |-> proxies]
    /\ UNCHANGED rets
    /\ UNCHANGED ledgerVars

NextThreads ==
    \E t \in Threads : thread_create_span(t) \/ thread_exit_span(t)

SpecThreads == Init /\ [][NextThreads]_vars

----------------------------------------------------------------------------
\* What the last call released, as release records in release order.
Released == SubSeq(closed, op.pre_closed + 1, Len(closed))

ClosedIds == {closed[i].id : i \in 1..Len(closed)}

TypeOK ==
    /\ next_id \in 0..MaxCreates
    /\ alive \in BOOLEAN
    /\ wellNested \in BOOLEAN
    /\ \A i \in 1..Len(spans) : spans[i].id \in 1..next_id

----------------------------------------------------------------------------
\* C1. Capacity bound: in every reachable state, and so after every
\* create_span call returns, the ledger holds at most MAX_SPANS_LEN entries.
C1_CapacityBound == Len(spans) <= MAX_SPANS_LEN

\* A create_span call made on a full ledger has returned and the ledger is
\* exactly full.
C1_Witness ==
    /\ op.kind = "create"
    /\ Len(op.pre_spans) = MAX_SPANS_LEN
    /\ Len(spans) = MAX_SPANS_LEN

\* C2. Id issuance: the k-th create_span call returns k, whatever exits,
\* mismatched exits and evictions happen between the creates.
C2_IdIssuance ==
    /\ \A k \in 1..Len(returned) : returned[k] = k
    /\ op.kind = "create" => op.ret = Len(returned)

\* A create_span call has returned after an eviction and after an exit_span
\* call that released an entry other than the requested one.
C2_Witness ==
    /\ op.kind = "create"
    /\ Len(returned) >= 3
    /\ \E i \in 1..Len(closed) : closed[i].by = "create"
    /\ \E i \in 1..Len(closed) :
          closed[i].by = "exit" /\ ~closed[i].own

\* C3. Well-nested usage: while every exit_span was called with the id of the
\* tail entry and no create_span evicted, each exit removes exactly the tail
\* entry and releases it valid, every released span is valid and was
\* released by the exit for its own id, no call warns, and when every issued
\* id has been exited the ledger is empty.
C3_WellNested ==
    (wellNested /\ alive) =>
        /\ log = <<>>
        /\ \A i \in 1..Len(closed) :
              /\ closed[i].is_valid_trace
              /\ closed[i].by = "exit"
              /\ closed[i].own
        /\ op.kind = "exit" =>
              /\ spans = Front(op.pre_spans)
              /\ Released = <<[id |-> op.arg, is_valid_trace |-> TRUE,
                               by |-> "exit", own |-> TRUE]>>
        /\ ClosedIds = 1..next_id => spans = <<>>

\* Three spans were created and all exited in well-nested order, span 2
\* inside span 1, and the last call was the exit that emptied the ledger.
C3_Witness ==
    /\ wellNested /\ alive
    /\ op.kind = "exit"
    /\ next_id >= 3
    /\ ClosedIds = 1..next_id
    /\ \E i, j \in 1..Len(closed) :
          i < j /\ closed[i].id = 2 /\ closed[j].id = 1

\* C4. Eviction: a create_span call made on a full ledger removes exactly
\* the head entry, which has the smallest id and is not the new entry,
\* releases it with is_valid_trace = false, and leaves MAX_SPANS_LEN
\* entries: the former ones but the head, in order, then the new entry.
C4_Eviction ==
    (op.kind = "create" /\ Len(op.pre_spans) = MAX_SPANS_LEN) =>
        /\ spans = Append(Tail(op.pre_spans),
                          [id |-> op.ret, is_valid_trace |-> TRUE])
        /\ Len(spans) = MAX_SPANS_LEN
        /\ Released = <<[id |-> Head(op.pre_spans).id, is_valid_trace |-> FALSE,
                         by |-> "create", own |-> FALSE]>>
        /\ \A i \in 1..Len(op.pre_spans) :
              Head(op.pre_spans).id <= op.pre_spans[i].id
        /\ Head(op.pre_spans).id # op.ret
        /\ log = <<WarnMaxLen>>

\* Two create_span calls in a row have each evicted: the last two releases
\* are evictions, the second of the next-oldest entry.
C4_Witness ==
    /\ op.kind = "create"
    /\ Len(op.pre_spans) = MAX_SPANS_LEN
    /\ Len(closed) >= 2
    /\ closed[Len(closed) - 1].by = "create"
    /\ closed[Len(closed)].by = "create"
    /\ Len(returned) >= MAX_SPANS_LEN + 2
    /\ closed[Len(closed)].id > closed[Len(closed) - 1].id

\* C5. Mismatched exit: when exit_span(id) is called with id open but not at
\* the tail, every entry with a greater id, the former tail included, is
\* released with is_valid_trace = false, and the entry with the requested id
\* is released with is_valid_trace = true.
C5_MismatchedExit ==
    (/\ op.kind = "exit"
     /\ op.arg \in Ids(op.pre_spans)
     /\ Last(op.pre_spans).id # op.arg) =>
        /\ \A i \in 1..Len(op.pre_spans) :
              op.pre_spans[i].id > op.arg =>
                \E j \in 1..Len(Released) :
                    /\ Released[j].id = op.pre_spans[i].id
                    /\ ~Released[j].is_valid_trace
        /\ \E j \in 1..Len(Released) :
              Released[j].id = op.arg /\ Released[j].is_valid_trace

\* C6. is_valid_trace separates clean closes from all others: a span is
\* released with is_valid_trace = true only by an exit_span call whose id is
\* the span's own id; eviction, teardown and an exit for another id release
\* with is_valid_trace = false.
C6_ValidOnlyOwnExit ==
    \A i \in 1..Len(closed) : closed[i].is_valid_trace => closed[i].own

\* C7. Double exit: an exit_span(id) call made after an exit_span(id) call has
\* released the entry with that id warns "not found" and changes nothing: it
\* releases no span and leaves the ledger as it was.
C7_DoubleExit ==
    (/\ op.kind = "exit"
     /\ \E i \in 1..op.pre_closed : closed[i].id = op.arg /\ closed[i].own) =>
        /\ \E k \in 1..Len(log) : log[k] = WarnNotFound(op.arg)
        /\ Released = <<>>
        /\ spans = op.pre_spans

\* C8. Exit on an empty ledger: exit_span(id), for any id, called with no
\* open entry returns after the single warning "not found", releases
\* nothing, leaves the ledger empty and next_id as it was.
C8_ExitOnEmpty ==
    (op.kind = "exit" /\ op.pre_spans = <<>>) =>
        /\ log = <<WarnNotFound(op.arg)>>
        /\ Released = <<>>
        /\ spans = <<>>
        /\ next_id = op.pre_next_id

\* exit_span has returned from a call on a ledger emptied after some spans
\* were created, with an id that was issued before.
C8_Witness ==
    /\ op.kind = "exit"
    /\ op.pre_spans = <<>>
    /\ next_id >= 2
    /\ op.arg \in 1..next_id

\* C9. Teardown: dropping the proxy with N open entries releases all N, from
\* the tail to the head, each with is_valid_trace = false, and leaves the
\* ledger empty.
C9_Teardown ==
    op.kind = "drop" =>
        /\ spans = <<>>
        /\ Len(Released) = Len(op.pre_spans)
        /\ \A i \in 1..Len(Released) :
              Released[i] = [id |-> Reverse(op.pre_spans)[i].id,
                             is_valid_trace |-> FALSE,
                             by |-> "drop", own |-> FALSE]

\* The proxy was dropped holding a full ledger, after an eviction.
C9_Witness ==
    /\ op.kind = "drop"
    /\ Len(op.pre_spans) = MAX_SPANS_LEN
    /\ Len(Released) = MAX_SPANS_LEN
    /\ \E i \in 1..op.pre_closed : closed[i].by = "create"

\* In every state the issued ids 1..next_id are partitioned into the open
\* entries and the released spans, no id is released twice or open twice,
\* and after teardown every issued id is released.
C10_Partition ==
    /\ Ids(spans) \cup ClosedIds = 1..next_id
    /\ Ids(spans) \cap ClosedIds = {}
    /\ \A i, j \in 1..Len(closed) : closed[i].id = closed[j].id => i = j
    /\ \A i, j \in 1..Len(spans) : spans[i].id = spans[j].id => i = j
    /\ ~alive => (spans = <<>> /\ ClosedIds = 1..next_id)

\* A step only appends to the release log: a released span stays released,
\* with the is_valid_trace it was released with.
C10_Step ==
    /\ Len(closed') >= Len(closed)
    /\ SubSeq(closed', 1, Len(closed)) = closed

\* C10. Every span is closed exactly once: each created span is released
\* exactly once (by its exit, a forced close, eviction or teardown), all are
\* released once the proxy is dropped, a released span never returns to the
\* ledger nor changes its final is_valid_trace, and in every state the ids
\* 1..next_id are partitioned into open entries and released spans.
C10_ClosedOnce == []C10_Partition /\ [][C10_Step]_vars

\* The proxy was dropped with open entries after spans were released by an
\* eviction, by their own exit and by an exit for another id.
C10_Witness ==
    /\ ~alive
    /\ op.pre_spans # <<>>
    /\ ClosedIds = 1..next_id
    /\ \E i \in 1..Len(closed) : closed[i].by = "create"
    /\ \E i \in 1..Len(closed) : closed[i].own
    /\ \E i \in 1..Len(closed) : closed[i].by = "exit" /\ ~closed[i].own

\* C11. Thread confinement: a call made by one thread leaves the proxy of
\* the other thread (entries and next_id) as it was, and each thread's
\* returned ids and proxy are those of its own calls run alone.
C11_ThreadConfinement ==
    /\ \A t \in Threads :
          /\ proxies[PROXY(t)] = solo[t].proxy
          /\ rets[t] = solo[t].returned
          /\ \A k \in 1..Len(rets[t]) : rets[t][k] = k
    /\ tcall.kind # "new" =>
          \A u \in Threads \ {tcall.thread} :
              proxies[PROXY(u)] = tcall.pre[PROXY(u)]

\* Both threads have created spans and hold different ledgers, and the last
\* call was a mismatched exit_span on one thread while the other had open
\* entries.
C11_Witness ==
    /\ tcall.kind = "exit"
    /\ \A t \in Threads : Len(rets[t]) >= 2
    /\ \A u \in Threads \ {tcall.thread} : proxies[PROXY(u)].spans # <<>>
    /\ tcall.pre[PROXY(tcall.thread)].spans # <<>>
    /\ Last(tcall.pre[PROXY(tcall.thread)].spans).id # tcall.arg
    /\ proxies[PROXY(1)] # proxies[PROXY(2)]

\* C12. Exit with an id greater than the tail entry's id: the call on a
\* non-empty ledger whose tail id is smaller than id warns of the mismatch,
\* pops until the ledger is empty and then warns "not found".
C12_ExitAboveTail ==
    (/\ op.kind = "exit"
     /\ op.pre_spans # <<>>
     /\ Last(op.pre_spans).id < op.arg) =>
        /\ \E k \in 1..Len(log) : log[k].kind = "ids_not_equal"
        /\ spans = <<>>
        /\ Len(Released) = Len(op.pre_spans)
        /\ log # <<>> /\ Last(log) = WarnNotFound(op.arg)

\* C13. Not-found reporting: every exit_span(id) call that returns without
\* having released an entry whose id is id has warned "not found" and
\* returns with the ledger empty.
C13_NotFoundReported ==
    (/\ op.kind = "exit"
     /\ \A j \in 1..Len(Released) : Released[j].id # op.arg) =>
        /\ \E k \in 1..Len(log) : log[k] = WarnNotFound(op.arg)
        /\ spans = <<>>

\* C14. Release order within one exit_span call: the entries one call
\* releases are released in strictly decreasing id order, the former tail
\* first, and the entry with the requested id, when released, last.
C14_ReleaseOrder ==
    op.kind = "exit" =>
        /\ \A i, j \in 1..Len(Released) :
              i < j => Released[i].id > Released[j].id
        /\ Released # <<>> => Released[1].id = Last(op.pre_spans).id
        /\ \A j \in 1..Len(Released) :
              Released[j].id = op.arg => j = Len(Released)

\* The entries of s with an id smaller than id, in their order.
Below(s, id) == SelectSeq(s, LAMBDA e : e.id < id)

\* C15. Exit frame: when exit_span(id) is called with id open, popping stops
\* at that entry: the entries with a smaller id stay, in the same order and
\* with their is_valid_trace, and nothing else stays; no exit_span call
\* changes next_id.
C15_ExitFrame ==
    op.kind = "exit" =>
        /\ next_id = op.pre_next_id
        /\ op.arg \in Ids(op.pre_spans) =>
              /\ spans = Below(op.pre_spans, op.arg)
              /\ spans = SubSeq(op.pre_spans, 1, Len(spans))

\* exit_span was called for an open id below the tail, with entries below
\* it that stay open.
C15_Witness ==
    /\ op.kind = "exit"
    /\ op.arg \in Ids(op.pre_spans)
    /\ Last(op.pre_spans).id # op.arg
    /\ spans # <<>>
    /\ Len(Released) >= 2

\* C16. Create frame: a create_span call on a ledger with fewer than
\* MAX_SPANS_LEN entries adds 1 to next_id, appends one entry with that id
\* and is_valid_trace = true at the tail, leaves every other entry as it
\* was, releases no span and logs no warning.
C16_CreateFrame ==
    (op.kind = "create" /\ Len(op.pre_spans) < MAX_SPANS_LEN) =>
        /\ next_id = op.pre_next_id + 1
        /\ op.ret = next_id
        /\ spans = Append(op.pre_spans,
                          [id |-> next_id, is_valid_trace |-> TRUE])
        /\ Released = <<>>
        /\ log = <<>>

\* create_span was called on a ledger one short of full, after spans were
\* released.
C16_Witness ==
    /\ op.kind = "create"
    /\ Len(op.pre_spans) = MAX_SPANS_LEN - 1
    /\ Len(spans) = MAX_SPANS_LEN
    /\ closed # <<>>

\* C17. Ledger ordering: the ids of the open entries are strictly
\* increasing from head to tail, all lie in 1..next_id, and the tail entry
\* is the most recently created span that is still open.
C17_LedgerOrdered ==
    /\ \A i, j \in 1..Len(spans) : i < j => spans[i].id < spans[j].id
    /\ Ids(spans) \subseteq 1..next_id
    /\ spans # <<>> =>
          \A n \in (1..next_id) \ ClosedIds : n <= Last(spans).id

\* The ledger holds non-consecutive ids after an eviction and an exit, and
\* its tail is not the last created span.
C17_Witness ==
    /\ Len(spans) >= 2
    /\ \E i \in 1..(Len(spans) - 1) : spans[i + 1].id > spans[i].id + 1
    /\ Last(spans).id < next_id
    /\ \E i \in 1..Len(closed) : closed[i].by = "create"

\* C18. Open entries are valid: every entry held in the ledger has
\* is_valid_trace = true, so the entry released by the exit_span call for its
\* own id is released with is_valid_trace = true.
C18_OpenEntriesValid ==
    /\ \A i \in 1..Len(spans) : spans[i].is_valid_trace
    /\ \A i \in 1..Len(op.pre_spans) : op.pre_spans[i].is_valid_trace
    /\ \A i \in 1..Len(closed) : closed[i].own => closed[i].is_valid_trace

\* Entries are open after an eviction and a forced close, and an entry has
\* been released by the exit for its own id after them.
C18_Witness ==
    /\ spans # <<>>
    /\ \E i, j, k \in 1..Len(closed) :
          /\ i < k /\ j < k
          /\ closed[i].by = "create"
          /\ closed[j].by = "exit" /\ ~closed[j].is_valid_trace
          /\ closed[k].own

\* C19. Exit consumes the tail: every exit_span call on a non-empty ledger
\* removes at least the tail entry, so fewer entries are open after it, and
\* it pops (and releases) no more entries than were open.
C19_ExitConsumesTail ==
    (op.kind = "exit" /\ op.pre_spans # <<>>) =>
        /\ Len(spans) < Len(op.pre_spans)
        /\ spans = SubSeq(op.pre_spans, 1, Len(spans))
        /\ \E j \in 1..Len(Released) : Released[j].id = Last(op.pre_spans).id
        /\ Len(Released) = Len(op.pre_spans) - Len(spans)
        /\ Len(Released) <= Len(op.pre_spans)

\* exit_span was called with an id that is not open, above the tail's id, on
\* a ledger of several entries.
C19_Witness ==
    /\ op.kind = "exit"
    /\ Len(op.pre_spans) >= 2
    /\ op.arg \notin Ids(op.pre_spans)
    /\ op.arg > Last(op.pre_spans).id
    /\ Len(spans) = Len(op.pre_spans) - 1

====
